---- MODULE Spec2Model ----
(***************************************************************************)
(* The AgeToken attestation protocol of the repository: the Node attestor  *)
(* (samples/attestor-node/attestor.js) that issues signed compact tokens   *)
(* and the Python validator (validate_compact_token / validate_token of    *)
(* the technical appendix) that checks them.                               *)
(***************************************************************************)
EXTENDS Integers, Sequences, FiniteSets, TLC

VARIABLES
    now,          \* the wall clock, in seconds (Date.now()/1000, time.time())
    nextTid,      \* uuidv4(): the next fresh token id
    issued,       \* compact tokens POST /issue_token has returned
    wire,         \* compact tokens that exist outside the attestor
    req,          \* the body of the last POST /issue_token
    resp,         \* the response to it
    public_key,   \* the validator's module-level verify key
    revoked,      \* attestor keys the registry reports as revoked
    calls,        \* POST /validate_token requests, in order of arrival
    codec,        \* objects handed to signToken's serialisation, and the texts
    clock,        \* Date.now() of the web application, in milliseconds
    store,        \* rateLimiter.store: identifier -> {count, resetTime}
    last,         \* the last call of rateLimiter.checkLimit and what it returned
    twin,         \* a RateLimiter given the same calls whose cleanup never runs
    recent        \* per identifier and instant, the calls allowed in the last windowMs

vars == <<now, nextTid, issued, wire, req, resp, public_key, revoked, calls, codec,
          clock, store, last, twin, recent>>

\* The state of the attestation protocol, and the state of the rate limiter.
protocolVars == <<now, nextTid, issued, wire, req, resp, public_key, revoked, calls, codec>>

limiterVars == <<clock, store, last, twin, recent>>

----------------------------------------------------------------------------
(* Bounds of the model *)

MaxIssued == 1

MaxTampered == 1

MaxCalls == 2

\* Requests per window of an identifier other than the busy one.
MaxLightRequests == 2

\* The instants the clock visits: the scenario's 1000 and 2000, and the
\* seconds around the expiry of a token issued at 1000.
Instants == {1000, 2000, 4599, 4600, 4601}

\* What callers put in the body of POST /issue_token ("" is a missing field).
Ages == {"13_15", "ADULT", ""}

Auds == {"app.example", "other.app", ""}

Nonces == {"r4nd1", ""}

\* A caller-supplied lifetime in the request body (0: none supplied).
CallerTtls == {0, 7200}

\* A nonce of 128 characters.
LongNonce == "0123456789abcdef0123456789abcdef0123456789abcdef0123456789abcdef0123456789abcdef0123456789abcdef0123456789abcdef0123456789abcdef"

\* The audiences a platform presents to POST /validate_token.
ExpectedAuds == {"app.example", "other.app"}

----------------------------------------------------------------------------
(* The attestor: attestor.js *)

\* const keypair = nacl.sign.keyPair(): the attestor's only key.
keypair == [publicKey |-> "K_att", secretKey |-> "K_att"]

\* The key pair nacl.sign.keyPair() gives the attestor at its next start.
NewerKey == "K_att2"

\* A key the attestor does not hold.
AttackerKey == "K_evil"

validAgeBuckets == {"UNDER_13", "13_15", "16_17", "18_PLUS"}

ttl == 60 * 60

\* Position of a property name in the order Array.prototype.sort gives.
KeyRank(k) ==
    CASE k = "age" -> 1 [] k = "att" -> 2 [] k = "aud" -> 3 [] k = "exp" -> 4
      [] k = "flags" -> 5 [] k = "iat" -> 6 [] k = "nonce" -> 7
      [] k = "purpose" -> 8 [] k = "tid" -> 9

\* Object.keys(payloadObj).sort()
RECURSIVE SortKeys(_)
SortKeys(ks) ==
    IF ks = {} THEN <<>>
    ELSE LET m == CHOOSE k \in ks : \A o \in ks : KeyRank(k) <= KeyRank(o)
         IN <<m>> \o SortKeys(ks \ {m})

SeqToSet(s) == {s[i] : i \in 1..Len(s)}

\* Object.keys(obj): the property names in insertion order.
ObjectKeys(obj) == obj.keys

\* The members of a nested object that JSON.stringify writes under a replacer
\* array: the array is the property list of every object, at every depth, so
\* the members written are those the array names, in the array's order.
RECURSIVE StringifyMembers(_, _)
StringifyMembers(members, allow) ==
    IF allow = <<>> THEN <<>>
    ELSE LET hit == {i \in 1..Len(members) : members[i][1] = allow[1]}
         IN (IF hit = {} THEN <<>> ELSE <<members[CHOOSE i \in hit : TRUE]>>)
            \o StringifyMembers(members, Tail(allow))

\* JSON.stringify(payloadObj) without a replacer: the properties of every
\* object in insertion order.
JSONstringify_plain(obj, allow) ==
    [order |-> ObjectKeys(obj),
     tid |-> obj.tid, att |-> obj.att, age |-> obj.age, aud |-> obj.aud,
     iat |-> obj.iat, exp |-> obj.exp, nonce |-> obj.nonce,
     flags |-> obj.flags]

\* JSON.stringify(payloadObj, allow): the text, as the order of its top-level
\* keys, its scalar values and the members written for flags.
JSONstringify(obj, allow) ==
    [order |-> allow,
     tid |-> obj.tid, att |-> obj.att, age |-> obj.age, aud |-> obj.aud,
     iat |-> obj.iat, exp |-> obj.exp, nonce |-> obj.nonce,
     flags |-> StringifyMembers(obj.flags, allow)]

\* The number of decimal digits JSON.stringify writes for a number.
RECURSIVE Digits(_)
Digits(n) == IF n < 10 THEN 1 ELSE 1 + Digits(n \div 10)

\* The characters of the members of a nested object: "name":"value" each,
\* with a comma between two.
RECURSIVE MembersLength(_)
MembersLength(members) ==
    IF members = <<>> THEN 0
    ELSE Len(members[1][1]) + 3 + Len(members[1][2]) + 2
         + (IF Len(members) > 1 THEN 1 ELSE 0)
         + MembersLength(Tail(members))

\* Names of the top-level properties, for their lengths.
RECURSIVE NamesLength(_)
NamesLength(names) ==
    IF names = <<>> THEN 0 ELSE Len(names[1]) + NamesLength(Tail(names))

\* Buffer.from(payload).length: the bytes of a payload text. Every member is
\* "name":value, commas between, braces around; tid is a uuid of 36
\* characters.
ByteLength(text) ==
    2 + (Len(text.order) - 1) + NamesLength(text.order) + 3 * Len(text.order)
    + (36 + 2) + (Len(text.att) + 2) + (Len(text.age) + 2) + (Len(text.aud) + 2)
    + Digits(text.iat) + Digits(text.exp) + (Len(text.nonce) + 2)
    + (2 + MembersLength(text.flags))

\* Buffer.from(payload): the UTF-8 bytes of a text.
BufferFrom(text) == [text |-> text, enc |-> "utf8"]

\* nacl.sign.detached(msg, secretKey)
SignDetached(msg, secretKey) == [msg |-> msg, key |-> secretKey, flipped |-> FALSE]

\* base64url.encode(bytes)
B64Encode(bytes) == [b64 |-> bytes]

\* signToken, signing the plain JSON.stringify(payloadObj) of the appendix's
\* copy while sending the sorted text.
signToken_signsUnsorted(payloadObj, privateKey) ==
    LET allow == SortKeys(SeqToSet(ObjectKeys(payloadObj)))
        payload == JSONstringify(payloadObj, allow)
        plain == [payload EXCEPT
                     !.order = ObjectKeys(payloadObj),
                     !.flags = payloadObj.flags]
        sig == SignDetached(BufferFrom(plain), privateKey)
    IN <<B64Encode(BufferFrom(payload)), B64Encode(sig)>>

\* signToken(payloadObj, privateKey): the segments around the "."
signToken(payloadObj, privateKey) ==
    LET allow == SortKeys(SeqToSet(ObjectKeys(payloadObj)))
        payload == JSONstringify(payloadObj, allow)
        sig == SignDetached(BufferFrom(payload), privateKey)
    IN <<B64Encode(BufferFrom(payload)), B64Encode(sig)>>

\* tokenObj with an id made once, when the module is loaded, instead of one
\* uuidv4() per request.
tokenObj_moduleTid(age, aud, nonce, t, tid) ==
    [keys |-> <<"tid", "att", "age", "aud", "iat", "exp", "nonce", "flags">>,
     tid |-> 1, att |-> "attestor.example.org", age |-> age, aud |-> aud,
     iat |-> t, exp |-> t + ttl, nonce |-> nonce,
     flags |-> << <<"purpose", "safety">> >>]

\* const tokenObj = {...}: the object literal, its properties in the order
\* they are written.
tokenObj(age, aud, nonce, t, tid) ==
    [keys |-> <<"tid", "att", "age", "aud", "iat", "exp", "nonce", "flags">>,
     tid |-> tid, att |-> "attestor.example.org", age |-> age, aud |-> aud,
     iat |-> t, exp |-> t + ttl, nonce |-> nonce,
     flags |-> << <<"purpose", "safety">> >>]

\* The ClaimSet an object of the attestor stands for: its fields and the
\* entries of its flags map.
ClaimSetOf(obj) ==
    [keys |-> SeqToSet(ObjectKeys(obj)),
     tid |-> obj.tid, att |-> obj.att, age |-> obj.age, aud |-> obj.aud,
     iat |-> obj.iat, exp |-> obj.exp, nonce |-> obj.nonce,
     flags |-> SeqToSet(obj.flags)]

NoResp == [status |-> 0, token |-> <<>>, expires_at |-> 0, error |-> ""]

\* IssueResponse, taking the lifetime from the request body when it has one.
IssueResponse_callerTtl(body) ==
    IF body.age = "" \/ body.aud = "" \/ body.nonce = ""
    THEN [status |-> 400, token |-> <<>>, expires_at |-> 0, error |-> "missing fields"]
    ELSE IF body.age \notin validAgeBuckets
    THEN [status |-> 400, token |-> <<>>, expires_at |-> 0, error |-> "invalid age bucket"]
    ELSE LET base == tokenObj(body.age, body.aud, body.nonce, now, nextTid)
             obj == IF body.ttl > 0 THEN [base EXCEPT !.exp = now + body.ttl] ELSE base
         IN [status |-> 201, token |-> signToken(obj, keypair.secretKey),
             expires_at |-> obj.exp, error |-> ""]

\* IssueResponse without the age bucket check, as in the appendix's copy of
\* the handler.
IssueResponse_anyAge(body) ==
    IF body.age = "" \/ body.aud = "" \/ body.nonce = ""
    THEN [status |-> 400, token |-> <<>>, expires_at |-> 0, error |-> "missing fields"]
    ELSE LET obj == tokenObj(body.age, body.aud, body.nonce, now, nextTid)
         IN [status |-> 201, token |-> signToken(obj, keypair.secretKey),
             expires_at |-> obj.exp, error |-> ""]

\* app.post('/issue_token'): the response for body at the present time.
IssueResponse(body) ==
    IF body.age = "" \/ body.aud = "" \/ body.nonce = ""
    THEN [status |-> 400, token |-> <<>>, expires_at |-> 0, error |-> "missing fields"]
    ELSE IF body.age \notin validAgeBuckets
    THEN [status |-> 400, token |-> <<>>, expires_at |-> 0, error |-> "invalid age bucket"]
    ELSE LET obj == tokenObj(body.age, body.aud, body.nonce, now, nextTid)
         IN [status |-> 201, token |-> signToken(obj, keypair.secretKey),
             expires_at |-> obj.exp, error |-> ""]

\* A request to POST /issue_token, while fewer than n tokens were issued.
IssueTokenUpTo(n, body) ==
    /\ nextTid <= n
    /\ req' = body
    /\ resp' = IssueResponse(body)
    /\ IF resp'.status = 201
       THEN /\ issued' = issued \cup {resp'.token}
            /\ wire' = wire \cup {resp'.token}
            /\ nextTid' = nextTid + 1
       ELSE UNCHANGED <<issued, wire, nextTid>>
    /\ UNCHANGED <<now, public_key, revoked, calls, codec, limiterVars>>

IssueToken(body) == IssueTokenUpTo(MaxIssued, body)

\* The tokenObj of the handler as the technical appendix prints it: the same
\* properties without flags.
tokenObjAppendix(age, aud, nonce, t, tid) ==
    [keys |-> <<"tid", "att", "age", "aud", "iat", "exp", "nonce">>,
     tid |-> tid, att |-> "attestor.example.org", age |-> age, aud |-> aud,
     iat |-> t, exp |-> t + ttl, nonce |-> nonce,
     flags |-> <<>>]

\* signToken as the technical appendix prints it: JSON.stringify(payloadObj)
\* without a replacer.
signTokenAppendix(payloadObj, privateKey) ==
    LET payload == JSONstringify_plain(payloadObj, <<>>)
        sig == SignDetached(BufferFrom(payload), privateKey)
    IN <<B64Encode(BufferFrom(payload)), B64Encode(sig)>>

\* app.post('/issue_token') as the technical appendix prints it, run with the
\* attestor's key pair: no check of the age bucket, no expires_at in the
\* answer.
IssueTokenAppendix(body) ==
    /\ nextTid <= MaxIssued
    /\ req' = body
    /\ resp' = IF body.age = "" \/ body.aud = "" \/ body.nonce = ""
               THEN [status |-> 400, token |-> <<>>, expires_at |-> 0, error |-> "missing fields"]
               ELSE [status |-> 201,
                     token |-> signTokenAppendix(
                                  tokenObjAppendix(body.age, body.aud, body.nonce, now, nextTid),
                                  keypair.secretKey),
                     expires_at |-> 0, error |-> ""]
    /\ IF resp'.status = 201
       THEN /\ issued' = issued \cup {resp'.token}
            /\ wire' = wire \cup {resp'.token}
            /\ nextTid' = nextTid + 1
       ELSE UNCHANGED <<issued, wire, nextTid>>
    /\ UNCHANGED <<now, public_key, revoked, calls, codec, limiterVars>>

----------------------------------------------------------------------------
(* The environment: time, the registry, and whoever holds a token *)

Tick ==
    /\ \E t \in Instants : t > now /\ now' = t
    /\ UNCHANGED <<nextTid, issued, wire, req, resp, public_key, revoked, calls, codec, limiterVars>>

\* The cap verification puts on the bytes of a payload.
MaxPayloadSize == 256

\* The validity window the trust bundle gives the attestor's key.
keyWindow == [valid_from |-> 1000, valid_until |-> 4601]

\* The trust bundle of the registry: the attestor of GET /public_key with its
\* key, the key's window and its status.
TrustEntries ==
    { [status |-> IF keypair.publicKey \in revoked THEN "revoked" ELSE "active",
       valid_from |-> keyWindow.valid_from,
       valid_until |-> keyWindow.valid_until,
       attestor_id |-> "attestor.example.org",
       key_id |-> keypair.publicKey,
       pubkey |-> keypair.publicKey] }

\* GET /attestors/{id}/status turns to "revoked" for the attestor's key.
Revoke ==
    /\ keypair.publicKey \notin revoked
    /\ revoked' = revoked \cup {keypair.publicKey}
    /\ UNCHANGED <<now, nextTid, issued, wire, req, resp, public_key, calls, codec, limiterVars>>

\* POST /set_public_key {pubkey}: the validator is handed the key the
\* attestor shows after a restart, once the old process has issued its tokens;
\* the handed key takes the place of the one held.
SetPublicKey ==
    /\ nextTid > MaxIssued
    /\ \E k \in {keypair.publicKey, NewerKey} \ {public_key} : public_key' = k
    /\ UNCHANGED <<now, nextTid, issued, wire, req, resp, revoked, calls, codec, limiterVars>>

\* The lowest bit of a number's last decimal digit flipped ('0' 0x30 to '1'
\* 0x31 and so on): the number moves by one.
FlipLowBit(n) == IF n % 2 = 0 THEN n + 1 ELSE n - 1

\* The ways a holder changes the payload bytes of a token: one bit of exp,
\* or the age bucket rewritten.
PayloadTampers(bytes) ==
    { [bytes EXCEPT !.text.exp = FlipLowBit(@)],
      [bytes EXCEPT !.text.age = IF @ = "18_PLUS" THEN "13_15" ELSE "18_PLUS"] }

TamperedCount == Cardinality(wire \ issued)

TamperPayload ==
    /\ TamperedCount < MaxTampered
    /\ \E tok \in issued : \E b \in PayloadTampers(tok[1].b64) :
          wire' = wire \cup {<<B64Encode(b), tok[2]>>}
    /\ UNCHANGED <<now, nextTid, issued, req, resp, public_key, revoked, calls, codec, limiterVars>>

TamperSignature ==
    /\ TamperedCount < MaxTampered
    /\ \E tok \in issued :
          wire' = wire \cup {<<tok[1], B64Encode([tok[2].b64 EXCEPT !.flipped = TRUE])>>}
    /\ UNCHANGED <<now, nextTid, issued, req, resp, public_key, revoked, calls, codec, limiterVars>>

\* A holder presents the segments of an issued token with no "." (the payload
\* segment alone) or with a second "." and a further segment.
Resegment ==
    /\ TamperedCount < MaxTampered
    /\ \E tok \in issued : \E t \in {<<tok[1]>>, <<tok[1], tok[2], tok[2]>>} :
          wire' = wire \cup {t}
    /\ UNCHANGED <<now, nextTid, issued, req, resp, public_key, revoked, calls, codec, limiterVars>>

\* The ways a holder changes the members of a payload text: a member taken
\* out, a member the attestor never writes put in, a member written twice.
MemberTampers(bytes) ==
    { [bytes EXCEPT !.text.order = SelectSeq(@, LAMBDA k : k # "nonce"),
                    !.text.nonce = ""],
      [bytes EXCEPT !.text.order = Append(@, "admin")],
      [bytes EXCEPT !.text.order = Append(@, "age")] }

TamperMembers ==
    /\ TamperedCount < MaxTampered
    /\ \E tok \in issued : \E b \in MemberTampers(tok[1].b64) :
          wire' = wire \cup {<<B64Encode(b), tok[2]>>}
    /\ UNCHANGED <<now, nextTid, issued, req, resp, public_key, revoked, calls, codec, limiterVars>>

\* A token over a payload of the attacker's choice, signed with its own key.
Forge ==
    /\ TamperedCount < MaxTampered
    /\ \E tok \in issued :
          LET b == [tok[1].b64 EXCEPT !.text.age = "18_PLUS"]
          IN wire' = wire \cup {<<B64Encode(b), B64Encode(SignDetached(b, AttackerKey))>>}
    /\ UNCHANGED <<now, nextTid, issued, req, resp, public_key, revoked, calls, codec, limiterVars>>

----------------------------------------------------------------------------
(* The validator: validate_compact_token and validate_token *)

\* base64url.decode(segment): the bytes base64url.encode was given.
B64Decode(seg) == seg.b64

\* The text of UTF-8 bytes, and payload_json.encode('utf-8') back.
DecodeUtf8(bytes) == bytes.text

EncodeUtf8(str) == [text |-> str, enc |-> "utf8"]

\* NaclVerify, not binding the signature to the message.
NaclVerify_anyMessage(key, message, sig) ==
    /\ sig.key = key
    /\ ~sig.flipped

\* public_key.verify(message, sig): TRUE when it does not raise BadSignatureError.
NaclVerify(key, message, sig) ==
    /\ sig.key = key
    /\ ~sig.flipped
    /\ sig.msg = message

\* json.loads(payload_json): the dict of the text, with the keys the text
\* has (a name written twice is one key, a name the attestor never writes is
\* a key like any other); the order of the keys and of the members of flags
\* is not part of it.
JsonLoads(str) ==
    [keys |-> SeqToSet(str.order),
     tid |-> str.tid, att |-> str.att, age |-> str.age, aud |-> str.aud,
     iat |-> str.iat, exp |-> str.exp, nonce |-> str.nonce,
     flags |-> SeqToSet(str.flags)]

\* AudMismatch, with the comparison left out.
AudMismatch_never(payload, expected_aud) == FALSE

\* if payload['aud'] != expected_aud
AudMismatch(payload, expected_aud) == payload.aud # expected_aud

\* if payload['exp'] < now
IsExpired(payload, t) == payload.exp < t

Ok(payload) == [ok |-> TRUE, info |-> "payload"]

Err(msg) == [ok |-> FALSE, info |-> msg]

\* validate_compact_token with a replay cache that is written before the
\* checks: every token id presented, accepted or not, counts as consumed.
validate_recordsRejected(compact_token, expected_aud, t) ==
    IF Len(compact_token) # 2 THEN Err("ValueError")
    ELSE LET payload_json == DecodeUtf8(B64Decode(compact_token[1]))
             sig == B64Decode(compact_token[2])
         IN IF \E k \in 1..Len(calls) :
                   calls[k].pc = "done"
                   /\ DecodeUtf8(B64Decode(calls[k].token[1])).tid = payload_json.tid
            THEN Err("replayed")
            ELSE IF ~NaclVerify(public_key, EncodeUtf8(payload_json), sig)
            THEN Err("BadSignatureError")
            ELSE LET payload == JsonLoads(payload_json)
                 IN IF "aud" \notin payload.keys THEN Err("KeyError")
                    ELSE IF AudMismatch(payload, expected_aud) THEN Err("audience mismatch")
                    ELSE IF "exp" \notin payload.keys THEN Err("KeyError")
                    ELSE IF IsExpired(payload, t) THEN Err("expired")
                    ELSE Ok(payload)

\* validate_compact_token, unpacking the first two of the segments split
\* gives and ignoring further ones.
validate_firstTwoSegments(compact_token, expected_aud, t) ==
    IF Len(compact_token) < 2 THEN Err("ValueError")
    ELSE LET payload_json == DecodeUtf8(B64Decode(compact_token[1]))
             sig == B64Decode(compact_token[2])
         IN IF ~NaclVerify(public_key, EncodeUtf8(payload_json), sig)
            THEN Err("BadSignatureError")
            ELSE LET payload == JsonLoads(payload_json)
                 IN IF "aud" \notin payload.keys THEN Err("KeyError")
                    ELSE IF AudMismatch(payload, expected_aud) THEN Err("audience mismatch")
                    ELSE IF "exp" \notin payload.keys THEN Err("KeyError")
                    ELSE IF IsExpired(payload, t) THEN Err("expired")
                    ELSE Ok(payload)

\* validate_compact_token with a replay cache keyed on the nonce alone: a
\* token is refused when a token of the same nonce was accepted before.
validate_nonceCache(compact_token, expected_aud, t) ==
    IF Len(compact_token) # 2 THEN Err("ValueError")
    ELSE LET payload_json == DecodeUtf8(B64Decode(compact_token[1]))
             sig == B64Decode(compact_token[2])
         IN IF ~NaclVerify(public_key, EncodeUtf8(payload_json), sig)
            THEN Err("BadSignatureError")
            ELSE LET payload == JsonLoads(payload_json)
                 IN IF "aud" \notin payload.keys THEN Err("KeyError")
                    ELSE IF AudMismatch(payload, expected_aud) THEN Err("audience mismatch")
                    ELSE IF "exp" \notin payload.keys THEN Err("KeyError")
                    ELSE IF IsExpired(payload, t) THEN Err("expired")
                    ELSE IF \E k \in 1..Len(calls) :
                               /\ calls[k].pc = "done"
                               /\ calls[k].result.ok
                               /\ DecodeUtf8(B64Decode(calls[k].token[1])).nonce = payload.nonce
                    THEN Err("replayed")
                    ELSE Ok(payload)

\* validate_compact_token(compact_token, expected_aud), with time.time() = t.
validate_compact_token(compact_token, expected_aud, t) ==
    IF Len(compact_token) # 2 THEN Err("ValueError")
    ELSE LET payload_json == DecodeUtf8(B64Decode(compact_token[1]))
             sig == B64Decode(compact_token[2])
         IN IF ~NaclVerify(public_key, EncodeUtf8(payload_json), sig)
            THEN Err("BadSignatureError")
            ELSE LET payload == JsonLoads(payload_json)
                 IN IF "aud" \notin payload.keys THEN Err("KeyError")
                    ELSE IF AudMismatch(payload, expected_aud) THEN Err("audience mismatch")
                    ELSE IF "exp" \notin payload.keys THEN Err("KeyError")
                    ELSE IF IsExpired(payload, t) THEN Err("expired")
                    ELSE Ok(payload)

\* The verify key a token is checked with: the module-level public_key,
\* whatever attestor and key the token names and whatever the time.
resolve(attestor_id, key_id, at_time) == public_key

NoResult == [ok |-> FALSE, info |-> "pending"]

\* validate_token() is entered and reads the request; calls already running
\* in other threads overlap with it.
ValidateBeginUpTo(n) ==
    /\ Len(calls) < n
    /\ \E tok \in wire : \E aud \in ExpectedAuds :
          calls' = Append(calls,
              [aud |-> aud, token |-> tok, pc |-> "running",
               result |-> NoResult, at |-> 0,
               overlaps |-> {j \in 1..Len(calls) : calls[j].pc = "running"}])
    /\ UNCHANGED <<now, nextTid, issued, wire, req, resp, public_key, revoked, codec, limiterVars>>

ValidateBegin == ValidateBeginUpTo(MaxCalls)

\* ValidateEnd, with a validator that takes the key a token was signed with
\* as its verify key when the signature check fails.
ValidateEnd_adoptsKey ==
    /\ \E i \in 1..Len(calls) :
          /\ calls[i].pc = "running"
          /\ calls' = [calls EXCEPT ![i] =
                [@ EXCEPT !.pc = "done", !.at = now,
                          !.result = validate_compact_token(calls[i].token,
                                                            calls[i].aud, now)]]
          /\ public_key' = IF calls'[i].result.info = "BadSignatureError"
                           THEN B64Decode(calls[i].token[2]).key
                           ELSE public_key
    /\ UNCHANGED <<now, nextTid, issued, wire, req, resp, revoked, codec, limiterVars>>

\* validate_token() runs validate_compact_token and answers.
ValidateEnd ==
    /\ \E i \in 1..Len(calls) :
          /\ calls[i].pc = "running"
          /\ calls' = [calls EXCEPT ![i] =
                [@ EXCEPT !.pc = "done", !.at = now,
                          !.result = validate_compact_token(calls[i].token,
                                                            calls[i].aud, now)]]
    /\ UNCHANGED <<now, nextTid, issued, wire, req, resp, public_key, revoked, codec, limiterVars>>

\* The error taxonomy's name for what validate_token answers.
Verdict(r) ==
    CASE r.ok -> "Accepted"
      [] r.info = "audience mismatch" -> "AudienceMismatch"
      [] r.info = "expired" -> "Expired"
      [] r.info = "BadSignatureError" -> "BadSignature"
      [] r.info = "pending" -> "Pending"
      [] OTHER -> "Malformed"

----------------------------------------------------------------------------
(* The rate limiter of the web application: lib/security/rateLimit.ts *)

\* export const rateLimiter = new RateLimiter(60000, 100)
windowMs == 60000

maxRequests == 100

\* The identifiers requests are counted under (`${ip}-${session.user.id}`):
\* a busy client, whose requests are not bounded, and a light one.
Identifiers == {"ip1", "ip2"}

BusyIdentifier == "ip1"

\* The instants Date.now() visits: the start of a window, its resetTime and
\* the millisecond after, and the millisecond after the resetTime of a window
\* started at 60000.
LimiterInstants == {0, 60000, 60001, 120001}

\* this.store[identifier] = record
Put(st, identifier, record) ==
    [k \in DOMAIN st \cup {identifier} |-> IF k = identifier THEN record ELSE st[k]]

\* checkLimit with the window test written as now >= record.resetTime.
checkLimit_resetsAtResetTime(st, identifier, t) ==
    IF identifier \notin DOMAIN st \/ t >= st[identifier].resetTime
    THEN [store |-> Put(st, identifier, [resetTime |-> t + windowMs, count |-> 1]),
          result |-> [resetTime |-> t + windowMs,
                      allowed |-> TRUE, remaining |-> maxRequests - 1]]
    ELSE IF st[identifier].count >= maxRequests
    THEN [store |-> st,
          result |-> [resetTime |-> st[identifier].resetTime,
                      allowed |-> FALSE, remaining |-> 0]]
    ELSE LET record == [st[identifier] EXCEPT !.count = @ + 1]
         IN [store |-> Put(st, identifier, record),
             result |-> [resetTime |-> record.resetTime,
                         allowed |-> TRUE, remaining |-> maxRequests - record.count]]

\* checkLimit(identifier) on the store st with Date.now() = t: the store it
\* leaves and the object it returns.
checkLimit(st, identifier, t) ==
    IF identifier \notin DOMAIN st \/ t > st[identifier].resetTime
    THEN [store |-> Put(st, identifier, [resetTime |-> t + windowMs, count |-> 1]),
          result |-> [resetTime |-> t + windowMs,
                      allowed |-> TRUE, remaining |-> maxRequests - 1]]
    ELSE IF st[identifier].count >= maxRequests
    THEN [store |-> st,
          result |-> [resetTime |-> st[identifier].resetTime,
                      allowed |-> FALSE, remaining |-> 0]]
    ELSE LET record == [st[identifier] EXCEPT !.count = @ + 1]
         IN [store |-> Put(st, identifier, record),
             result |-> [resetTime |-> record.resetTime,
                         allowed |-> TRUE, remaining |-> maxRequests - record.count]]

\* cleanup, deleting the records with now >= resetTime.
cleanup_deletesAtResetTime(st, t) ==
    [k \in {key \in DOMAIN st : ~(t >= st[key].resetTime)} |-> st[k]]

\* cleanup() on the store st with Date.now() = t: the store it leaves.
cleanup(st, t) ==
    [k \in {key \in DOMAIN st : ~(t > st[key].resetTime)} |-> st[k]]

\* No call yet. Of a call, what it returned, its identifier, and whether it
\* found a record of the identifier in the store (const record).
NoCheck ==
    [result |-> [resetTime |-> 0, allowed |-> FALSE, remaining |-> 0], id |-> "",
     found |-> FALSE]

EmptyStore == [k \in {} |-> [resetTime |-> 0, count |-> 0]]

\* The module is loaded: an empty store, no call yet.
LimiterInit ==
    /\ clock = 0
    /\ store = EmptyStore
    /\ last = NoCheck
    /\ twin = [store |-> EmptyStore, last |-> NoCheck]
    /\ recent = [id \in Identifiers |-> [t \in LimiterInstants |-> 0]]

\* The requests identifier has made in its present window.
Asked(identifier) ==
    IF identifier \in DOMAIN twin.store /\ clock <= twin.store[identifier].resetTime
    THEN twin.store[identifier].count
    ELSE 0

\* A request of identifier reaches the route: rateLimiter.checkLimit.
CheckLimit(identifier) ==
    /\ identifier = BusyIdentifier \/ Asked(identifier) < MaxLightRequests
    /\ LET r == checkLimit(store, identifier, clock)
           q == checkLimit(twin.store, identifier, clock)
       IN /\ store' = r.store
          /\ last' = [result |-> r.result, id |-> identifier,
                      found |-> identifier \in DOMAIN store]
          /\ twin' = [store |-> q.store,
                      last |-> [result |-> q.result, id |-> identifier,
                                found |-> identifier \in DOMAIN twin.store]]
          /\ recent' = IF r.result.allowed
                       THEN [recent EXCEPT ![identifier][clock] = @ + 1]
                       ELSE recent
    /\ UNCHANGED <<clock, protocolVars>>

\* The interval timer fires: rateLimiter.cleanup().
Cleanup ==
    /\ store' = cleanup(store, clock)
    /\ UNCHANGED <<clock, last, twin, recent, protocolVars>>

\* Time passes; calls allowed windowMs ago or earlier are no longer recent.
LimiterTick ==
    /\ \E t \in LimiterInstants :
          /\ t > clock
          /\ clock' = t
          /\ recent' = [id \in Identifiers |->
                           [u \in LimiterInstants |->
                               IF u > t - windowMs THEN recent[id][u] ELSE 0]]
    /\ UNCHANGED <<store, last, twin, protocolVars>>

----------------------------------------------------------------------------

NoReq == [ttl |-> 0, age |-> "", aud |-> "", nonce |-> ""]

NoCodec == [objs |-> <<>>, texts |-> <<>>]

Init ==
    /\ now = 1000
    /\ nextTid = 1
    /\ issued = {}
    /\ wire = {}
    /\ req = NoReq
    /\ resp = NoResp
    /\ public_key = keypair.publicKey
    /\ revoked = {}
    /\ calls = <<>>
    /\ codec = NoCodec
    /\ LimiterInit

Next ==
    \/ \E age \in Ages, aud \in Auds, nonce \in Nonces, cttl \in CallerTtls :
          IssueToken([ttl |-> cttl, age |-> age, aud |-> aud, nonce |-> nonce])
    \/ Tick
    \/ Revoke
    \/ TamperPayload
    \/ TamperSignature
    \/ Forge
    \/ ValidateBegin
    \/ ValidateEnd

Spec == Init /\ [][Next]_vars

\* The attestor alone: requests to POST /issue_token as time passes.
IssuerNext ==
    \/ \E age \in Ages, aud \in Auds, nonce \in Nonces, cttl \in CallerTtls :
          IssueToken([ttl |-> cttl, age |-> age, aud |-> aud, nonce |-> nonce])
    \/ Tick

IssuerSpec == Init /\ [][IssuerNext]_vars

\* The serialisation of signToken on its own: pairs of objects that hold the
\* same properties and values, inserted in different orders at the top level
\* and inside flags.
KeyOrders ==
    { <<"tid", "att", "age", "aud", "iat", "exp", "nonce", "flags">>,
      <<"flags", "nonce", "exp", "iat", "aud", "age", "att", "tid">>,
      <<"att", "tid", "flags", "age", "nonce", "aud", "exp", "iat">> }

FlagOrders ==
    { <<>>,
      << <<"purpose", "safety">> >>,
      << <<"purpose", "safety">>, <<"aud", "eu">> >>,
      << <<"aud", "eu">>, <<"purpose", "safety">> >>,
      << <<"nonce", "n1">>, <<"aud", "eu">> >>,
      << <<"aud", "eu">>, <<"nonce", "n1">> >> }

CodecObjects ==
    { [tokenObj(age, "app.example", "r4nd1", 1000, 1) EXCEPT !.flags = fl, !.keys = ks] :
          age \in validAgeBuckets, fl \in FlagOrders, ks \in KeyOrders }

CodecInit ==
    /\ now = 1000
    /\ nextTid = 1
    /\ issued = {}
    /\ wire = {}
    /\ req = NoReq
    /\ resp = NoResp
    /\ public_key = keypair.publicKey
    /\ revoked = {}
    /\ calls = <<>>
    /\ \E a, b \in CodecObjects :
          /\ ClaimSetOf(a) = ClaimSetOf(b)
          /\ codec = [objs |-> <<a, b>>, texts |-> <<>>]
    /\ LimiterInit

\* Both objects go through signToken; the payload bytes of each are kept.
Encode ==
    /\ codec.texts = <<>>
    /\ codec' = [codec EXCEPT !.texts =
            <<B64Decode(signToken(codec.objs[1], keypair.secretKey)[1]),
              B64Decode(signToken(codec.objs[2], keypair.secretKey)[1])>>]
    /\ UNCHANGED <<now, nextTid, issued, wire, req, resp, public_key, revoked, calls, limiterVars>>

CodecNext == Encode

CodecSpec == CodecInit /\ [][CodecNext]_vars

\* The request of the scenario.
ScenarioRequest == [ttl |-> 0, age |-> "13_15", aud |-> "app.example", nonce |-> "r4nd1"]

\* Key rotation: tokens of the attestor's first key pair, verified before and
\* after the validator is handed the attestor's newer key.
RotationNext ==
    \/ IssueToken(ScenarioRequest)
    \/ Tick
    \/ SetPublicKey
    \/ ValidateBegin
    \/ ValidateEnd

RotationSpec == Init /\ [][RotationNext]_vars


\* The key hand-over on its own: a token is issued and verified while the
\* validator is handed the newer key and the older one back.
HandoverNext ==
    \/ IssueToken(ScenarioRequest)
    \/ SetPublicKey
    \/ ValidateBegin
    \/ ValidateEnd

HandoverSpec == Init /\ [][HandoverNext]_vars

\* The wire form: issued tokens and re-segmented copies of them, presented
\* to the validator while they are fresh.
WireNext ==
    \/ IssueToken(ScenarioRequest)
    \/ Resegment
    \/ ValidateBegin
    \/ ValidateEnd

WireSpec == Init /\ [][WireNext]_vars

\* Payload sizes: requests with a short and with a long nonce, and the
\* verification of the tokens issued on them.
SizeNext ==
    \/ \E nonce \in {"r4nd1", LongNonce} :
          IssueToken([ttl |-> 0, age |-> "13_15", aud |-> "app.example", nonce |-> nonce])
    \/ Tick
    \/ ValidateBegin
    \/ ValidateEnd

SizeSpec == Init /\ [][SizeNext]_vars

\* Decoding: tokens of the attestor and of the handler the appendix prints,
\* and copies whose payload members a holder changed, presented while fresh.
DecodeNext ==
    \/ IssueToken(ScenarioRequest)
    \/ IssueTokenAppendix(ScenarioRequest)
    \/ TamperMembers
    \/ ValidateBegin
    \/ ValidateEnd

DecodeSpec == Init /\ [][DecodeNext]_vars

\* Twin tokens: the same request answered twice at the same second, and the
\* verification of the two tokens.
TwinNext ==
    \/ IssueTokenUpTo(2, ScenarioRequest)
    \/ ValidateBegin
    \/ ValidateEnd

TwinSpec == Init /\ [][TwinNext]_vars

\* The rate limiter: requests, the cleanup timer and the passing of time.
LimiterNext ==
    \/ \E identifier \in Identifiers : CheckLimit(identifier)
    \/ Cleanup
    \/ LimiterTick

LimiterSpec == Init /\ [][LimiterNext]_vars

\* The scenario: one request to the attestor, then three verifications.
ScenarioNext ==
    \/ IssueToken(ScenarioRequest)
    \/ Tick
    \/ ValidateBeginUpTo(3)
    \/ ValidateEnd

ScenarioSpec == Init /\ [][ScenarioNext]_vars

----------------------------------------------------------------------------
(* Vocabulary of the properties *)

\* The ClaimSet a compact token carries.
Claims(tok) == tok[1].b64.text

Done(i) == i \in 1..Len(calls) /\ calls[i].pc = "done"

VerdictOf(i) == Verdict(calls[i].result)

\* Call i presents an untampered issued token to the audience it names.
OwnAudience(i) == calls[i].token \in issued /\ calls[i].aud = Claims(calls[i].token).aud

\* Call i ran strictly before the token's expires_at.
BeforeExpiry(i) == calls[i].at < Claims(calls[i].token).exp

\* The validator holds the attestor's key and the registry has not revoked it.
KeyTrusted == public_key = keypair.publicKey /\ keypair.publicKey \notin revoked

\* Call i had answered before call j was received.
Precedes(i, j) == i < j /\ i \notin calls[j].overlaps

\* Calls i and j ran at the same time.
Concurrent(i, j) == i < j /\ i \in calls[j].overlaps

\* Call j is the first presentation of its token.
FirstOfToken(j) == \A i \in 1..(j - 1) : calls[i].token # calls[j].token

----------------------------------------------------------------------------
(* Replay *)

\* C1: verifying the identical issued token twice in sequence with its own
\* audience, both times before expires_at and with a trusted key, succeeds
\* the first time and fails the second time with Replayed.
C1_SecondVerificationReplayed ==
    \A i, j \in 1..Len(calls) :
        ( /\ Done(i) /\ Done(j) /\ Precedes(i, j)
          /\ calls[i].token = calls[j].token
          /\ FirstOfToken(i)
          /\ OwnAudience(i) /\ OwnAudience(j)
          /\ BeforeExpiry(i) /\ BeforeExpiry(j)
          /\ KeyTrusted )
        => (VerdictOf(i) = "Accepted" /\ VerdictOf(j) = "Replayed")

\* C2: of two concurrent verifications of the identical issued token with
\* its own audience, exactly one is Accepted and the other fails with
\* Replayed.
C2_ConcurrentExactlyOneAccepted ==
    \A i, j \in 1..Len(calls) :
        ( /\ Done(i) /\ Done(j) /\ Concurrent(i, j)
          /\ calls[i].token = calls[j].token
          /\ FirstOfToken(i)
          /\ OwnAudience(i) /\ OwnAudience(j)
          /\ BeforeExpiry(i) /\ BeforeExpiry(j)
          /\ KeyTrusted )
        => \/ (VerdictOf(i) = "Accepted" /\ VerdictOf(j) = "Replayed")
           \/ (VerdictOf(i) = "Replayed" /\ VerdictOf(j) = "Accepted")

\* C3: a verification that ends in a rejection consumes nothing: after a
\* tampered copy of a token, or the token under a wrong audience, was
\* rejected and no presentation of it was accepted, the issued token is still
\* accepted when it is presented with its own audience before expires_at.
C3_RejectionConsumesNothing ==
    \A i, j \in 1..Len(calls) :
        ( /\ Done(i) /\ Done(j) /\ Precedes(i, j)
          /\ Claims(calls[i].token).tid = Claims(calls[j].token).tid
          /\ \A k \in 1..(j - 1) :
                Claims(calls[k].token).tid = Claims(calls[j].token).tid
                => (Done(k) /\ VerdictOf(k) # "Accepted")
          /\ OwnAudience(j) /\ BeforeExpiry(j)
          /\ KeyTrusted )
        => VerdictOf(j) = "Accepted"

\* A tampered copy was rejected, then the issued token was accepted.
C3_Witness ==
    \E i, j \in 1..Len(calls) :
        /\ Done(i) /\ Done(j) /\ Precedes(i, j)
        /\ calls[i].token \notin issued
        /\ Claims(calls[i].token).tid = Claims(calls[j].token).tid
        /\ calls[i].aud = calls[j].aud
        /\ VerdictOf(i) = "BadSignature"
        /\ OwnAudience(j) /\ BeforeExpiry(j) /\ KeyTrusted
        /\ VerdictOf(j) = "Accepted"

----------------------------------------------------------------------------
(* Policy checks *)

\* C4: the first verification of an issued token with its own audience and
\* a trusted key succeeds at now = expires_at - 1 and fails with Expired at
\* now = expires_at.
C4_ExpiryBoundary ==
    \A j \in 1..Len(calls) :
        (Done(j) /\ FirstOfToken(j) /\ OwnAudience(j) /\ KeyTrusted)
        => /\ calls[j].at = Claims(calls[j].token).exp - 1 => VerdictOf(j) = "Accepted"
           /\ calls[j].at = Claims(calls[j].token).exp => VerdictOf(j) = "Expired"

\* C5: an issued, unexpired token presented with an expected audience other
\* than its own fails with AudienceMismatch.
C5_AudienceBinding ==
    \A j \in 1..Len(calls) :
        ( /\ Done(j)
          /\ calls[j].token \in issued
          /\ calls[j].aud # Claims(calls[j].token).aud
          /\ BeforeExpiry(j)
          /\ public_key = keypair.publicKey )
        => VerdictOf(j) = "AudienceMismatch"

C5_Witness ==
    \E j \in 1..Len(calls) :
        /\ Done(j)
        /\ calls[j].token \in issued
        /\ Claims(calls[j].token).aud = "app.example"
        /\ calls[j].aud = "other.app"
        /\ BeforeExpiry(j)
        /\ VerdictOf(j) = "AudienceMismatch"

----------------------------------------------------------------------------
(* Tampering and revocation *)

\* tok is an issued token with its payload bytes changed.
PayloadChanged(tok) ==
    \E orig \in issued : tok[1] # orig[1] /\ tok[2] = orig[2]

\* tok is an issued token with one bit of its signature bytes flipped.
SignatureChanged(tok) ==
    \E orig \in issued :
        tok[1] = orig[1] /\ tok[2] = B64Encode([orig[2].b64 EXCEPT !.flipped = TRUE])

\* C6: a token obtained from an issued one by changing its payload bytes or
\* its signature bytes is never accepted: it is rejected with BadSignature,
\* whatever the audience and the time of the verification.
C6_TamperedRejected ==
    \A j \in 1..Len(calls) :
        (Done(j) /\ (PayloadChanged(calls[j].token) \/ SignatureChanged(calls[j].token)))
        => VerdictOf(j) = "BadSignature"

\* A copy whose payload was changed was presented, with the audience it
\* names and before its expiry, and rejected.
C6_Witness ==
    \E j \in 1..Len(calls) :
        /\ Done(j)
        /\ PayloadChanged(calls[j].token)
        /\ calls[j].aud = Claims(calls[j].token).aud
        /\ BeforeExpiry(j)
        /\ VerdictOf(j) = "BadSignature"

\* C7: once the key a token is signed with is revoked, every verification
\* of the token that answers afterwards fails with Revoked.
C7_RevokedKeyRejected ==
    [][\A i \in 1..Len(calls) :
          ( /\ calls[i].pc = "running"
            /\ calls'[i].pc = "done"
            /\ B64Decode(calls[i].token[2]).key \in revoked )
          => Verdict(calls'[i].result) = "Revoked"]_vars

----------------------------------------------------------------------------
(* Issuance *)

\* C8: the first verification of a freshly issued token with its own
\* audience at a time t, issued_at <= t < expires_at, is accepted when the
\* validator holds the signing key and the key is not revoked.
C8_FreshTokenAccepted ==
    \A j \in 1..Len(calls) :
        ( /\ Done(j) /\ FirstOfToken(j) /\ OwnAudience(j)
          /\ Claims(calls[j].token).iat <= calls[j].at
          /\ BeforeExpiry(j)
          /\ KeyTrusted )
        => VerdictOf(j) = "Accepted"

C8_Witness ==
    \E j \in 1..Len(calls) :
        /\ Done(j) /\ FirstOfToken(j) /\ OwnAudience(j)
        /\ Claims(calls[j].token).iat < calls[j].at
        /\ BeforeExpiry(j)
        /\ KeyTrusted
        /\ VerdictOf(j) = "Accepted"

\* C9: every token issued at time now has issued_at = now and
\* expires_at = now + ttl, so expires_at - issued_at = ttl and
\* expires_at > issued_at, whatever the request body holds.
C9_IssuanceTtl ==
    [][nextTid' # nextTid
       => /\ resp'.status = 201
          /\ Claims(resp'.token).iat = now
          /\ Claims(resp'.token).exp = now + ttl
          /\ Claims(resp'.token).exp - Claims(resp'.token).iat = ttl
          /\ Claims(resp'.token).exp > Claims(resp'.token).iat
          /\ resp'.expires_at = Claims(resp'.token).exp]_vars

\* A token was issued on a request that asked for a lifetime of its own.
C9_Witness ==
    /\ resp.status = 201
    /\ req.ttl = 7200
    /\ resp.token \in wire
    /\ Claims(resp.token).exp - Claims(resp.token).iat = ttl

\* C10: the scenario. The token issued at t = 1000 for {13_15, app.example,
\* r4nd1} has iat = 1000 and exp = 4600; three verifications at t = 2000, one
\* after the other, with audiences app.example, other.app, app.example give
\* Accepted, AudienceMismatch, Replayed.
C10_ScenarioTrace ==
    ( /\ resp.status = 201
      /\ Claims(resp.token).iat = 1000
      /\ Len(calls) = 3
      /\ \A i \in 1..3 : Done(i) /\ calls[i].at = 2000 /\ calls[i].token = resp.token
      /\ Precedes(1, 2) /\ Precedes(2, 3) /\ Precedes(1, 3)
      /\ calls[1].aud = "app.example"
      /\ calls[2].aud = "other.app"
      /\ calls[3].aud = "app.example" )
    => /\ Claims(resp.token).exp = 4600
       /\ VerdictOf(1) = "Accepted"
       /\ VerdictOf(2) = "AudienceMismatch"
       /\ VerdictOf(3) = "Replayed"

----------------------------------------------------------------------------
(* The codec: JSON.stringify in signToken, json.loads in the validator *)

\* C11: decode(encode(c)) = c for the ClaimSet issuance builds: the payload
\* of the token returned, decoded, has every field and every flags entry of
\* tokenObj with the same value.
C11_RoundTrip ==
    [][nextTid' # nextTid
       => JsonLoads(DecodeUtf8(B64Decode(resp'.token[1])))
            = ClaimSetOf(tokenObj(req'.age, req'.aud, req'.nonce, now, nextTid))]_vars

\* C12: the serialisation does not depend on insertion order: two objects
\* with the same properties and values, at the top level and inside flags,
\* give identical payload bytes.
C12_OrderIndependent ==
    codec.texts # <<>> => codec.texts[1] = codec.texts[2]

\* Two objects that differ in insertion order at both levels, with two flags
\* entries that the serialisation writes, were encoded to the same bytes.
C12_Witness ==
    /\ codec.texts # <<>>
    /\ codec.objs[1].keys # codec.objs[2].keys
    /\ codec.objs[1].flags # codec.objs[2].flags
    /\ Len(DecodeUtf8(codec.texts[1]).flags) = 2
    /\ codec.texts[1] = codec.texts[2]

----------------------------------------------------------------------------
(* The stages of a verification *)

\* The key the signature of a token was made with: the key the token names.
KeyOf(tok) == B64Decode(tok[2]).key

\* The policy errors that apply to call j: the token is presented at or
\* after its expires_at, or with another audience than its own.
PolicyErrors(j) ==
    (IF calls[j].at >= Claims(calls[j].token).exp THEN {"Expired"} ELSE {})
    \cup (IF calls[j].aud # Claims(calls[j].token).aud THEN {"AudienceMismatch"} ELSE {})

\* An earlier call accepted the token of call j.
AcceptedBefore(j) ==
    \E i \in 1..Len(calls) :
        Done(i) /\ Precedes(i, j) /\ calls[i].token = calls[j].token
        /\ VerdictOf(i) = "Accepted"

Stages == <<"Decoding", "TrustLookup", "SignatureCheck", "PolicyCheck", "ReplayCheck">>

\* The errors stage n of the order has for call j; none when the stage passes.
StageErrors(j, n) ==
    LET tok == calls[j].token IN
    CASE Stages[n] = "Decoding" ->
            IF Len(tok) # 2 THEN {"Malformed"} ELSE {}
      [] Stages[n] = "TrustLookup" ->
            IF KeyOf(tok) # public_key THEN {"UnknownAttestor", "UnknownKey"}
            ELSE IF KeyOf(tok) \in revoked THEN {"Revoked"}
            ELSE {}
      [] Stages[n] = "SignatureCheck" ->
            IF ~NaclVerify(public_key, B64Decode(tok[1]), B64Decode(tok[2]))
            THEN {"BadSignature"} ELSE {}
      [] Stages[n] = "PolicyCheck" -> PolicyErrors(j)
      [] Stages[n] = "ReplayCheck" ->
            IF AcceptedBefore(j) THEN {"Replayed"} ELSE {}

FailingStages(j) == {n \in 1..Len(Stages) : StageErrors(j, n) # {}}

\* C13: a verification whose token fails several stages at once answers
\* with an error of the earliest of them, in the order Decoding, TrustLookup,
\* SignatureCheck, PolicyCheck, ReplayCheck: the trust error for an unknown
\* key with a bad signature, BadSignature for a badly signed and expired
\* token.
C13_FirstFailingStage ==
    \A j \in 1..Len(calls) :
        (Done(j) /\ Cardinality(FailingStages(j)) >= 2)
        => \E n \in FailingStages(j) :
              /\ \A m \in FailingStages(j) : n <= m
              /\ VerdictOf(j) \in StageErrors(j, n)

----------------------------------------------------------------------------
(* Trust *)

\* C14: the key lookup of a verification gives UnknownAttestor when the
\* bundle has no entry of the token's attestor, UnknownKey when it has entries
\* of the attestor but none of the token's key, Revoked when the matching
\* entry is revoked (inside or outside its window), KeyExpired when it is not
\* revoked and the time is outside [valid_from, valid_until), and the entry's
\* public key otherwise.
C14_Resolve ==
    \A j \in 1..Len(calls) :
        Done(j) =>
            LET att == Claims(calls[j].token).att
                kid == KeyOf(calls[j].token)
                t == calls[j].at
                known == {e \in TrustEntries : e.attestor_id = att}
                match == {e \in known : e.key_id = kid}
                r == resolve(att, kid, t)
            IN IF known = {} THEN r = "UnknownAttestor"
               ELSE IF match = {} THEN r = "UnknownKey"
               ELSE \A e \in match :
                       IF e.status = "revoked" THEN r = "Revoked"
                       ELSE IF t < e.valid_from \/ t >= e.valid_until THEN r = "KeyExpired"
                       ELSE r = e.pubkey

\* C15: a token signed with the attestor's older key, the key still inside
\* its window and not revoked, is checked against that key and accepted on
\* its first presentation with its own audience before expires_at, also
\* after the validator was handed the attestor's newer key.
C15_OlderKeyAccepted ==
    [][\A j \in 1..Len(calls) :
          ( /\ calls[j].pc = "running"
            /\ calls'[j].pc = "done"
            /\ FirstOfToken(j) /\ OwnAudience(j)
            /\ now < Claims(calls[j].token).exp
            /\ KeyOf(calls[j].token) = keypair.publicKey
            /\ keypair.publicKey \notin revoked
            /\ now >= keyWindow.valid_from
            /\ now < keyWindow.valid_until )
          => /\ resolve(Claims(calls[j].token).att, KeyOf(calls[j].token), now)
                  = KeyOf(calls[j].token)
             /\ Verdict(calls'[j].result) = "Accepted"]_vars

\* C16: a request to issue that arrives when the window of the attestor's
\* key does not contain now emits no token: it is answered with NoActiveKey
\* when its fields are valid, and nothing is signed with the expired or
\* not-yet-valid key.
C16_NoActiveKey ==
    [][( /\ now' = now
         /\ (now < keyWindow.valid_from \/ now >= keyWindow.valid_until) )
       => /\ issued' = issued
          /\ resp'.status # 201
          /\ ( req'.age \in validAgeBuckets /\ req'.aud # "" /\ req'.nonce # ""
               => resp'.error = "NoActiveKey" )]_vars

----------------------------------------------------------------------------
(* Input validation of issuance *)

----------------------------------------------------------------------------
(* Replay over time *)

\* C18: over any run of verifications with non-decreasing time, the
\* validator accepts a given token at most once, and a presentation at or
\* after the token's expires_at, when a replay record may have been purged,
\* is never accepted: it fails with Expired when the token is otherwise good.
C18_AcceptedAtMostOnce ==
    /\ \A i, j \in 1..Len(calls) :
          (i # j /\ Done(i) /\ Done(j) /\ calls[i].token = calls[j].token)
          => ~(VerdictOf(i) = "Accepted" /\ VerdictOf(j) = "Accepted")
    /\ \A j \in 1..Len(calls) :
          (Done(j) /\ calls[j].at >= Claims(calls[j].token).exp)
          => /\ VerdictOf(j) # "Accepted"
             /\ (OwnAudience(j) /\ KeyTrusted) => VerdictOf(j) = "Expired"

----------------------------------------------------------------------------
(* The wire form *)

\* C19: an issued token is two segments around one "."; a token string
\* with no "." or with more than one is rejected by every verification, at
\* the split and before any of it is decoded.
C19_OneSeparator ==
    /\ \A tok \in issued : Len(tok) = 2
    /\ \A j \in 1..Len(calls) :
          (Done(j) /\ Len(calls[j].token) # 2)
          => /\ ~calls[j].result.ok
             /\ calls[j].result.info = "ValueError"
             /\ VerdictOf(j) = "Malformed"

\* An issued token with a second "." and a further segment was presented
\* with its own audience before its expiry, and rejected.
C19_Witness ==
    \E j \in 1..Len(calls) :
        /\ Done(j)
        /\ Len(calls[j].token) = 3
        /\ <<calls[j].token[1], calls[j].token[2]>> \in issued
        /\ calls[j].aud = Claims(calls[j].token).aud
        /\ BeforeExpiry(j)
        /\ VerdictOf(j) = "Malformed"

----------------------------------------------------------------------------
(* Size caps *)

\* C20: a token whose payload is larger than the maximum payload size is
\* never accepted, and it is rejected with PolicyViolation when it is validly
\* signed, unexpired and presented with its own audience.
C20_OversizeRejected ==
    \A j \in 1..Len(calls) :
        (Done(j) /\ ByteLength(Claims(calls[j].token)) > MaxPayloadSize)
        => /\ VerdictOf(j) # "Accepted"
           /\ (OwnAudience(j) /\ BeforeExpiry(j) /\ KeyTrusted)
                 => VerdictOf(j) = "PolicyViolation"

----------------------------------------------------------------------------
(* Decoding *)

\* The fields a ClaimSet declares, as the attestor names them.
DeclaredFields == {"tid", "att", "age", "aud", "iat", "exp", "nonce", "flags"}

\* The payload text has every declared field, once, and no other.
WellFormed(text) ==
    /\ SeqToSet(text.order) = DeclaredFields
    /\ Len(text.order) = Cardinality(DeclaredFields)

\* C21: decoding gives a complete ClaimSet or Malformed: a token whose
\* payload lacks a declared field, has a top-level field that is not declared
\* or writes a key twice is answered with Malformed, and the payload of an
\* accepted token has every declared field.
C21_DecodeComplete ==
    \A j \in 1..Len(calls) :
        Done(j) =>
            /\ ~WellFormed(Claims(calls[j].token)) => VerdictOf(j) = "Malformed"
            /\ VerdictOf(j) = "Accepted"
                  => JsonLoads(Claims(calls[j].token)).keys = DeclaredFields

----------------------------------------------------------------------------
(* What a caller of POST /validate_token is told *)

\* jsonify({"valid": ...}), 200 or 400: the status and the body, without the
\* payload of an accepted token.
ExternalResponse(r) ==
    IF r.ok THEN [status |-> 200, error |-> "", valid |-> TRUE]
    ELSE [status |-> 400, error |-> r.info, valid |-> FALSE]

\* The signature of tok does not verify over its payload under the key it
\* was made with.
BadlySigned(tok) ==
    ~NaclVerify(KeyOf(tok), B64Decode(tok[1]), B64Decode(tok[2]))

\* The trust lookup fails for tok at present: the validator does not hold
\* the key of tok, or the registry reports the key revoked.
TrustFailure(tok) ==
    \/ KeyOf(tok) # public_key
    \/ KeyOf(tok) \in revoked

\* C22: a caller is told the same for a trust failure (unknown attestor or
\* key, revoked key) as for a bad signature: the answer to a
\* verification whose token fails the trust lookup equals the answer any
\* verification of a badly signed token was given.
C22_SameExternalResponse ==
    [][\A i, j \in 1..Len(calls) :
          ( /\ calls[i].pc = "running"
            /\ calls'[i].pc = "done"
            /\ TrustFailure(calls[i].token)
            /\ Done(j)
            /\ BadlySigned(calls[j].token) )
          => ExternalResponse(calls'[i].result) = ExternalResponse(calls[j].result)]_vars

----------------------------------------------------------------------------
(* What verification and issuance leave alone *)

\* C26: no verification and no issuance changes the trust state: the verify
\* key the validator holds and the revocations change only in steps of the
\* registry and of the key hand-over, a step of a verification changes
\* nothing but the record of that request, and a step of an issuance nothing
\* but the request, its answer and the tokens issued.
C26_TrustFrame ==
    [][/\ (calls' # calls \/ req' # req \/ resp' # resp \/ nextTid' # nextTid)
          => (public_key' = public_key /\ revoked' = revoked)
       /\ calls' # calls
          => UNCHANGED <<now, nextTid, issued, wire, req, resp, public_key, revoked, codec>>
       /\ (req' # req \/ resp' # resp \/ nextTid' # nextTid)
          => UNCHANGED <<now, public_key, revoked, calls, codec>>]_vars

\* A token was issued, the validator was handed the newer key, and a
\* verification of the token then failed its signature check.
C26_Witness ==
    /\ issued # {}
    /\ public_key = NewerKey
    /\ \E j \in 1..Len(calls) :
          Done(j) /\ calls[j].token \in issued /\ VerdictOf(j) = "BadSignature"

----------------------------------------------------------------------------
(* Token ids *)

\* C27: every issuance makes a fresh token id: the id of the token a
\* request is answered with is the id of no token issued before, also when
\* the request and the time are the same.
C27_FreshTokenId ==
    [][nextTid' # nextTid
       => /\ resp'.status = 201
          /\ \A tok \in issued : Claims(tok).tid # Claims(resp'.token).tid]_vars

\* Two tokens were issued on the same age, audience and nonce at the same
\* second, with different ids.
C27_Witness ==
    \E a, b \in issued :
        /\ Claims(a).age = Claims(b).age
        /\ Claims(a).aud = Claims(b).aud
        /\ Claims(a).nonce = Claims(b).nonce
        /\ Claims(a).iat = Claims(b).iat
        /\ Claims(a).tid # Claims(b).tid

----------------------------------------------------------------------------
(* The rate limiter *)

RECURSIVE SumOver(_, _)
SumOver(f, S) ==
    IF S = {} THEN 0
    ELSE LET x == CHOOSE y \in S : TRUE IN f[x] + SumOver(f, S \ {x})

\* The calls of identifier that returned allowed = true at an instant later
\* than clock - windowMs: those of the 60000 ms that end now.
AllowedRecently(identifier) == SumOver(recent[identifier], LimiterInstants)

\* C24: at most 100 requests per minute per identifier: no interval of
\* 60000 ms holds more than maxRequests calls of one identifier that returned
\* allowed = true.
C24_AtMostMaxPerMinute ==
    \A identifier \in Identifiers : AllowedRecently(identifier) <= maxRequests

\* C25: a purge at time now removes exactly the entries whose expiry time
\* is <= now and leaves the others as they are, so that after a purge no
\* entry with an expiry time <= now remains; checked on the time-indexed
\* store the code has, the records of the rate limiter with their resetTime,
\* and its purge, cleanup.
C25_PurgeExact ==
    [][(DOMAIN store' # DOMAIN store /\ DOMAIN store' \subseteq DOMAIN store)
       => \A k \in DOMAIN store :
             /\ store[k].resetTime <= clock <=> k \notin DOMAIN store'
             /\ k \in DOMAIN store' => store'[k] = store[k]]_vars

\* The step is a call of checkLimit(identifier): the clock stands, the call
\* is the last one, and its answer or the record of identifier is new.
IsCheck(identifier) ==
    /\ clock' = clock
    /\ last'.id = identifier
    /\ \/ last' # last
       \/ /\ identifier \in DOMAIN store'
          /\ identifier \notin DOMAIN store \/ store'[identifier] # store[identifier]

\* C29: in checkLimit the stored count of every identifier stays between 1
\* and maxRequests, the remaining returned is never negative, a call that
\* returns allowed = false leaves the store as it was, a call with
\* now > resetTime starts a new window with count 1, and a call with
\* now = resetTime counts against the old window.
C29_CheckLimitInvariants ==
    [][/\ \A k \in DOMAIN store' : store'[k].count \in 1..maxRequests
       /\ \A identifier \in Identifiers :
             IsCheck(identifier) =>
                /\ identifier \in DOMAIN store'
                /\ last'.result.remaining >= 0
                /\ ~last'.result.allowed => store' = store
                /\ (identifier \in DOMAIN store /\ clock > store[identifier].resetTime)
                      => /\ store'[identifier] = [resetTime |-> clock + windowMs, count |-> 1]
                         /\ last'.result.allowed
                /\ (identifier \in DOMAIN store /\ clock = store[identifier].resetTime)
                      => /\ store'[identifier].resetTime = store[identifier].resetTime
                         /\ last'.result.allowed
                               => store'[identifier].count = store[identifier].count + 1
                         /\ store[identifier].count = maxRequests
                               => ~last'.result.allowed]_vars

\* The window of an identifier was full when a call came at now = resetTime,
\* and the call was refused against the old window.
C29_Witness ==
    /\ last.id \in DOMAIN store
    /\ ~last.result.allowed
    /\ last.result.remaining = 0
    /\ clock = store[last.id].resetTime
    /\ store[last.id].count = maxRequests

\* C30: cleanup is not observable through checkLimit: it deletes only
\* records with now > resetTime, and every call of checkLimit returns the same
\* and leaves the same record as on a limiter that got the same calls at the
\* same times and never ran cleanup.
C30_CleanupTransparent ==
    /\ last.id = twin.last.id
    /\ last.result = twin.last.result
    /\ \A identifier \in Identifiers :
          IF identifier \in DOMAIN store
          THEN /\ identifier \in DOMAIN twin.store
               /\ store[identifier] = twin.store[identifier]
          ELSE identifier \in DOMAIN twin.store
                  => clock > twin.store[identifier].resetTime

\* A call found no record because cleanup had deleted it, where the limiter
\* without cleanup found the old record; both started the same new window.
C30_Witness ==
    /\ ~last.found
    /\ twin.last.found
    /\ last.result = twin.last.result
    /\ last.result.allowed
    /\ last.id \in DOMAIN store
    /\ store[last.id] = twin.store[last.id]
    /\ store[last.id].resetTime = clock + windowMs

====
